---- MODULE Spec2Model ----
(***************************************************************************)
(* Model of the multi-source collector of the affiliate revenue engine.    *)
(*                                                                         *)
(* Two classes named DataCollector exist in the repository:                *)
(*   "primary" : src/data_collector.py (headers + optional proxy list)     *)
(*   "inline"  : src/affiliate_revenue_engine.py:63 (headers only); the    *)
(*               class statement rebinds the imported name, so this is the *)
(*               class AffiliateRevenueEngine.__init__ instantiates.       *)
(* A collector instance is constructed once (Init) and then serves a       *)
(* sequence of blocking collect calls.  One action models one iteration of *)
(* the for-loop together with every handler the iteration runs through.    *)
(*                                                                         *)
(* The methods are modelled as written, for a process in which both class  *)
(* statements have executed (annotations are not evaluated at definition   *)
(* time, PEP 649).  Names a method looks up at run time are resolved       *)
(* against what its module imports and its class defines: a lookup that    *)
(* fails raises NameError / AttributeError at that point.                  *)
(*                                                                         *)
(* Optional[X] values are sequences of length at most one: <<>> is None.   *)
(***************************************************************************)
EXTENDS Naturals, Sequences, FiniteSets, TLC

VARIABLES
    impl,        \* which DataCollector class the instance is
    headers,     \* self.headers
    proxies,     \* self.proxies (Optional list)
    entry,       \* "direct": collect called; "facade": collect_affiliate_data
    networks,    \* argument of the running / last call
    i,           \* 1-based position of the for-loop
    data,        \* local dict of collect, in insertion order
    reqs,        \* requests.get calls issued by this call, with their outcome
    log,         \* log records emitted during this call
    pc,          \* "idle" | "loop" | "returned" | "raised"
    exc,         \* exception type that left the call ("none" if none)
    calls,       \* number of calls started on the instance
    ref          \* a remembered earlier call that returned (history)

vars == <<impl, headers, proxies, entry, networks,
          i, data, reqs, log, pc, exc, calls, ref>>

----------------------------------------------------------------------------
\* Bounds of the model
MaxLen == 2      \* longest source list
MaxCalls == 3    \* calls per instance

Networks == {"a", "b"}
NonOkStatuses == {404}
GoodBodies == {"[10]", "[20]"}     \* bodies of 200 responses that are JSON
ErrorBodies == {"[0]"}             \* body of a non-200 response (JSON too)
BadBodies == {"<html>"}            \* a body that is not JSON

SeqsUpTo(S, n) == UNION {[1..k -> S] : k \in 0..n}

----------------------------------------------------------------------------
\* Python name resolution, per module / class

\* names bound at module level by the import statements
ModuleNames(im) ==
    IF im = "primary" THEN {"requests", "Dict", "Optional"}
    ELSE {"logging", "Dict", "List", "Optional", "requests", "pd", "datetime"}

\* methods the class defines
ClassMethods(im) ==
    IF im = "primary"
    THEN {"__init__", "collect", "_get_proxy", "_log_request_error"}
    ELSE {"__init__", "collect", "_log_request", "_log_error"}

----------------------------------------------------------------------------
\* Constructor

DefaultHeaders == [h \in {"Content-Type"} |-> "application/json"]

\* values the caller may pass as `proxies` (None, [], non-empty lists)
ProxyArgs ==
    {<<>>} \cup {<<l>> : l \in {<<>>, <<"p1", "p2">>, <<"p2", "p1">>}}

\* the inline class stores no proxies attribute
InitProxies(im, arg) == IF im = "primary" THEN arg ELSE <<>>

----------------------------------------------------------------------------
\* Helpers of collect

\* `if self.proxies` : None and [] are falsy
Truthy(px) == px # <<>> /\ px[1] # <<>>

\* variant: rotation that moves the used entry to the back of self.proxies
GetProxyRotating(px) ==
    [ret  |-> IF ~Truthy(px) THEN <<>> ELSE <<[http |-> px[1][1]]>>,
     self |-> IF ~Truthy(px) THEN px ELSE <<Append(Tail(px[1]), Head(px[1]))>>]

\* variant: the last entry of the list is selected
GetProxyLast(px) ==
    [ret  |-> IF ~Truthy(px) THEN <<>> ELSE <<[http |-> px[1][Len(px[1])]]>>,
     self |-> px]

\* _get_proxy: returns the proxy mapping and leaves self.proxies as it is
GetProxy(px) ==
    [ret  |-> IF ~Truthy(px) THEN <<>> ELSE <<[http |-> px[1][1]]>>,
     self |-> px]

\* the proxies= argument of requests.get
ProxyArg(im, px) ==
    IF im = "primary" /\ Truthy(px) THEN GetProxy(px).ret ELSE <<>>

\* self.proxies after the proxy selection of one iteration
ProxiesAfter(im, px) ==
    IF im = "primary" /\ Truthy(px) THEN GetProxy(px).self ELSE px

\* the URL requested for a network
Url(im, n) == IF im = "primary" THEN <<n>> ELSE <<n, "/api/stats">>

\* variant: the dict is kept on the instance and never cleared
InitDataStale == data

\* `data = {}`
InitData == <<>>

HasKey(d, k) == \E j \in 1..Len(d) : d[j].key = k

\* variant: dict.setdefault, the first value written stays
InsertFirstWins(d, k, v) ==
    IF HasKey(d, k) THEN d ELSE Append(d, [key |-> k, val |-> v])

\* `data[network] = value` on an insertion-ordered dict
Insert(d, k, v) ==
    IF HasKey(d, k)
    THEN [j \in 1..Len(d) |-> IF d[j].key = k THEN [key |-> k, val |-> v] ELSE d[j]]
    ELSE Append(d, [key |-> k, val |-> v])

\* variant: every status below 500 counts as a success
IsSuccessLax(status) == status < 500

\* `response.status_code == 200`
IsSuccess(status) == status = 200

\* response.json()
JsonValid(body) == body \in GoodBodies \cup ErrorBodies
JsonDecode(body) ==
    IF body = "[10]" THEN <<10>> ELSE IF body = "[20]" THEN <<20>> ELSE <<0>>

----------------------------------------------------------------------------
\* Outcomes of one requests.get

\* jsonErr: the exception type response.json() raises on an undecodable body
\* in the installed requests: requests.exceptions.JSONDecodeError (a
\* RequestException, requests >= 2.27) or the json module's ValueError
JsonErrorTypes == {"JSONDecodeError", "ValueError"}

Transport == [kind |-> "transport", status |-> 0, body |-> "", jsonErr |-> ""]
Response(st, b, je) == [kind |-> "response", status |-> st, body |-> b, jsonErr |-> je]

OkOutcomes == {Response(200, b, "") : b \in GoodBodies}
BadJsonOutcomes == {Response(200, b, je) : b \in BadBodies, je \in JsonErrorTypes}
Non200Outcomes == {Response(st, b, "") : st \in NonOkStatuses, b \in ErrorBodies}

----------------------------------------------------------------------------
\* One iteration of the loop

\* variant: a decode error is swallowed like a non-200 response
BodyExcTolerant(im, o) ==
    IF o.kind = "transport" THEN "RequestException"
    ELSE IF IsSuccess(o.status) THEN "none"
         ELSE IF im = "primary" /\ "logging" \notin ModuleNames(im)
              THEN "NameError" ELSE "none"

\* exception leaving the body of the for-loop ("none": the iteration completes)
BodyExc(im, o) ==
    IF o.kind = "transport" THEN "RequestException"
    ELSE IF IsSuccess(o.status)
         THEN IF JsonValid(o.body) THEN "none" ELSE o.jsonErr
         ELSE IF im = "primary"
              THEN IF "logging" \in ModuleNames(im) THEN "none" ELSE "NameError"
              ELSE "none"

\* records the body of the for-loop emits
BodyLog(im, n, o, at) ==
    IF o.kind = "response" /\ ~IsSuccess(o.status)
    THEN IF im = "primary"
         THEN IF "logging" \in ModuleNames(im)
              THEN <<[level |-> "ERROR", by |-> "_log_request_error", at |-> at]>>
              ELSE <<>>
         ELSE <<[level |-> "INFO", by |-> "_log_request", at |-> at]>>
    ELSE <<>>

\* `except requests.RequestException`
IsRequestException(e) == e \in {"RequestException", "JSONDecodeError"}

\* exception leaving collect, after its except clause
CollectExc(im, e) ==
    IF IsRequestException(e)
    THEN IF "_log_error" \in ClassMethods(im) THEN e ELSE "AttributeError"
    ELSE e

\* records the except clause of collect emits
CollectLog(im, e, at) ==
    IF IsRequestException(e) /\ "_log_error" \in ClassMethods(im)
    THEN <<[level |-> "ERROR", by |-> "_log_error", at |-> at]>>
    ELSE <<>>

\* records the except clause of collect_affiliate_data emits
FacadeLog(en, e, at) ==
    IF en = "facade" /\ IsRequestException(e)
    THEN <<[level |-> "ERROR", by |-> "engine.logger", at |-> at]>>
    ELSE <<>>

\* dict after the body of the loop
BodyData(d, n, o) ==
    IF o.kind = "response" /\ IsSuccess(o.status) /\ JsonValid(o.body)
    THEN Insert(d, n, JsonDecode(o.body))
    ELSE d

----------------------------------------------------------------------------
NoRef == [set |-> FALSE, networks |-> <<>>, answers |-> <<>>, data |-> <<>>]

Answers == [j \in 1..Len(reqs) |-> reqs[j].outcome]

TypeOK ==
    /\ impl \in {"primary", "inline"}
    /\ entry \in {"direct", "facade"}
    /\ pc \in {"idle", "loop", "returned", "raised"}
    /\ calls \in 0..MaxCalls
    /\ i \in 1..(MaxLen + 1)

Init ==
    /\ impl \in {"primary", "inline"}
    /\ headers = DefaultHeaders
    /\ \E arg \in ProxyArgs : proxies = InitProxies(impl, arg)
    /\ entry = "direct"
    /\ networks = <<>>
    /\ i = 1
    /\ data = <<>>
    /\ reqs = <<>>
    /\ log = <<>>
    /\ pc = "idle"
    /\ exc = "none"
    /\ calls = 0
    /\ ref = NoRef

\* collect(ns) is called, directly or through collect_affiliate_data; with
\* keep, the call that has just returned is remembered in ref (history only)
Call(ns, en, keep) ==
    /\ pc \in {"idle", "returned", "raised"}
    /\ calls < MaxCalls
    /\ en = "facade" => impl = "inline"
    /\ networks' = ns
    /\ entry' = en
    /\ i' = 1
    /\ data' = InitData
    /\ reqs' = <<>>
    /\ log' = <<>>
    /\ pc' = "loop"
    /\ exc' = "none"
    /\ calls' = calls + 1
    /\ keep => pc = "returned" /\ ~ref.set
    /\ ref' = IF keep
              THEN [set |-> TRUE, networks |-> networks, answers |-> Answers,
                    data |-> data]
              ELSE ref
    /\ UNCHANGED <<impl, headers, proxies>>

\* one iteration of `for network in networks` whose request ends as o
Iteration(o) ==
    /\ pc = "loop"
    /\ i <= Len(networks)
    /\ LET n  == networks[i]
           e1 == BodyExc(impl, o)
           e2 == CollectExc(impl, e1)
       IN /\ reqs' = Append(reqs, [url |-> Url(impl, n), headers |-> headers,
                                   proxy |-> ProxyArg(impl, proxies),
                                   outcome |-> o])
          /\ proxies' = ProxiesAfter(impl, proxies)
          /\ data' = BodyData(data, n, o)
          /\ log' = log \o BodyLog(impl, n, o, i) \o CollectLog(impl, e1, i)
                        \o FacadeLog(entry, e2, i)
          /\ exc' = e2
          /\ pc' = IF e2 = "none" THEN "loop" ELSE "raised"
          /\ i' = IF e2 = "none" THEN i + 1 ELSE i
    /\ UNCHANGED <<impl, headers, entry, networks,
                   calls, ref>>

\* the request is answered 200 with a JSON body
RespondOk ==
    /\ pc = "loop"
    /\ \E o \in OkOutcomes : Iteration(o)

\* the request is answered 200 with a body that is not JSON
RespondBadJson ==
    /\ pc = "loop"
    /\ \E o \in BadJsonOutcomes : Iteration(o)

\* the request is answered with another status
RespondNon200 ==
    /\ pc = "loop"
    /\ \E o \in Non200Outcomes : Iteration(o)

\* requests.get raises: no response is received
TransportFailure ==
    /\ pc = "loop"
    /\ Iteration(Transport)

\* the loop is exhausted: `return data`
Return ==
    /\ pc = "loop"
    /\ i > Len(networks)
    /\ pc' = "returned"
    /\ UNCHANGED <<impl, headers, proxies, entry,
                   networks, i, data, reqs, log, exc, calls, ref>>

CallAny ==
    /\ calls < MaxCalls
    /\ \E ns \in SeqsUpTo(Networks, MaxLen), en \in {"direct", "facade"} :
          Call(ns, en, FALSE)

CallRemember ==
    /\ pc = "returned"
    /\ \E ns \in SeqsUpTo(Networks, MaxLen), en \in {"direct", "facade"} :
          Call(ns, en, TRUE)

Next ==
    \/ CallAny
    \/ RespondOk
    \/ RespondBadJson
    \/ RespondNon200
    \/ TransportFailure
    \/ Return

Spec == Init /\ [][Next]_vars

NextRepeat == Next \/ CallRemember

SpecRepeat == Init /\ [][NextRepeat]_vars
----------------------------------------------------------------------------
\* Vocabulary of the properties

Keys(d) == {d[j].key : j \in 1..Len(d)}

\* the j-th request of the running call is the one for networks[j]
OkAt(j) == reqs[j].outcome \in OkOutcomes
Non200At(j) == reqs[j].outcome \in Non200Outcomes
BadJsonAt(j) == reqs[j].outcome \in BadJsonOutcomes
TransportAt(j) == reqs[j].outcome.kind = "transport"

Requested == 1..Len(reqs)
NoTransportFailure == \A j \in Requested : ~TransportAt(j)
OkSources == {networks[j] : j \in {k \in Requested : OkAt(k)}}
RecordsAt(j) == {k \in 1..Len(log) : log[k].at = j}

FirstOk(n) == CHOOSE j \in Requested :
                 /\ networks[j] = n /\ OkAt(j)
                 /\ \A k \in 1..(j - 1) : ~(networks[k] = n /\ OkAt(k))
LastOk(n) == CHOOSE j \in Requested :
                 /\ networks[j] = n /\ OkAt(j)
                 /\ \A k \in (j + 1)..Len(reqs) : ~(networks[k] = n /\ OkAt(k))

----------------------------------------------------------------------------
\* C1 as stated: when collect returns after a call without transport failure,
\* the keys of the mapping are exactly the sources whose request returned 200
\* with parseable JSON, and every source that returned any other status is
\* absent from the mapping.
C1_AsStated ==
    (pc = "returned" /\ NoTransportFailure) =>
        /\ Keys(data) = OkSources
        /\ \A j \in Requested : Non200At(j) => networks[j] \notin Keys(data)

\* C1 amended: when collect returns, the keys of the mapping are exactly the
\* sources with at least one request that returned 200 with parseable JSON; a
\* source is absent exactly when none of its requests did.
C1_KeySet ==
    pc = "returned" =>
        /\ Len(reqs) = Len(networks)
        /\ NoTransportFailure
        /\ Keys(data) = OkSources
        /\ \A j \in Requested :
              (\A k \in Requested : networks[k] = networks[j] => ~OkAt(k))
                  => networks[j] \notin Keys(data)

C1_Witness ==
    /\ pc = "returned"
    /\ \E j, k \in Requested :
          /\ OkAt(j) /\ Non200At(k)
          /\ networks[j] # networks[k]

----------------------------------------------------------------------------
\* C2: in a call that mixes 200 and non-200 responses, every non-200 response
\* produces exactly one log record, of level ERROR, and does not halt the
\* batch: the call does not raise.
C2_Non200LoggedAsErrorAndSkipped ==
    (\A j \in Requested : OkAt(j) \/ Non200At(j)) =>
        /\ pc # "raised"
        /\ \A j \in Requested : Non200At(j) =>
              /\ Cardinality(RecordsAt(j)) = 1
              /\ \A k \in RecordsAt(j) : log[k].level = "ERROR"

----------------------------------------------------------------------------
\* C3: a transport failure of the request at position j aborts collect at once:
\* the failure is logged, the same RequestException reaches the caller, no
\* mapping is returned and no later source is requested.
C3_TransportFailureAborts ==
    \A j \in Requested : TransportAt(j) =>
        /\ pc = "raised"
        /\ exc = "RequestException"
        /\ Len(reqs) = j
        /\ \E k \in RecordsAt(j) : log[k].level = "ERROR"

----------------------------------------------------------------------------
\* C4: collect([]) returns an empty mapping, issues no request and emits no
\* log record.
C4_EmptyList ==
    (calls > 0 /\ networks = <<>>) =>
        /\ pc \in {"loop", "returned"}
        /\ exc = "none"
        /\ data = <<>>
        /\ reqs = <<>>
        /\ log = <<>>

C4_Witness == pc = "returned" /\ networks = <<>> /\ calls > 1

----------------------------------------------------------------------------
\* C5: a call that returns on the same instance with the same source list and
\* the same answers as an earlier call that returned (in particular the call
\* right before it) returns the identical mapping: same keys, same order, same
\* payloads.
C5_Idempotent ==
    (ref.set /\ pc = "returned" /\ networks = ref.networks
             /\ Answers = ref.answers)
        => data = ref.data

\* the second call of an instance repeats the first one
C5_Witness ==
    /\ ref.set /\ calls = 2 /\ pc = "returned"
    /\ networks = ref.networks /\ Answers = ref.answers
    /\ Len(data) = 2

----------------------------------------------------------------------------
\* C6: the returned mapping holds one entry per source that succeeded, in the
\* order of their first successful request, each with the decoded payload of
\* its last successful request; one request is issued per occurrence in the
\* list; if every request succeeded every source is present.
C6_OrderedPayloads ==
    pc = "returned" =>
        /\ Len(reqs) = Len(networks)
        /\ \A j \in Requested : reqs[j].url = Url(impl, networks[j])
        /\ Cardinality(Keys(data)) = Len(data)
        /\ \A p \in 1..Len(data) :
              /\ data[p].key \in OkSources
              /\ data[p].val = JsonDecode(reqs[LastOk(data[p].key)].outcome.body)
        /\ \A p, q \in 1..Len(data) :
              p < q => FirstOk(data[p].key) < FirstOk(data[q].key)
        /\ (\A j \in Requested : OkAt(j)) =>
              Keys(data) = {networks[j] : j \in 1..Len(networks)}

\* a source occurs twice and its two requests return different payloads
C6_Witness ==
    /\ pc = "returned"
    /\ \E j, k \in Requested :
          /\ j < k /\ networks[j] = networks[k]
          /\ OkAt(j) /\ OkAt(k)
          /\ reqs[j].outcome.body # reqs[k].outcome.body

----------------------------------------------------------------------------
\* C7: the number of log records of a call equals the number of non-200
\* responses plus one if a transport failure occurred, and no record is about
\* a source that succeeded.
C7_OneRecordPerFailure ==
    /\ Len(log) = Cardinality({j \in Requested : Non200At(j)})
                  + (IF NoTransportFailure THEN 0 ELSE 1)
    /\ \A j \in Requested : OkAt(j) => RecordsAt(j) = {}

----------------------------------------------------------------------------
\* C8: no step of any call changes the headers or the proxy list of the
\* instance.
C8_ConfigReadOnly == [][headers' = headers /\ proxies' = proxies]_vars

C8_Witness ==
    /\ pc \in {"returned", "raised"}
    /\ Truthy(proxies)
    /\ calls > 1
    /\ Len(reqs) > 1

----------------------------------------------------------------------------
----------------------------------------------------------------------------
====
